---- MODULE Spec2Model ----
(***************************************************************************)
(* String tension calculator: the tension engine (utils/tension), the      *)
(* gauge inventory (pages/Summary), the application reducer                *)
(* (context/AppContext) and the three-pass gauge optimizer.                *)
(*                                                                         *)
(* Units.  The program computes with floating point numbers; the model     *)
(* computes with integers in fixed units:                                  *)
(*   gauge      thousandths of an inch        (0.010 -> 10)                *)
(*   scale      tenths of an inch             (25.5  -> 255)               *)
(*   frequency  Hz, truncated                 (E4    -> 329)               *)
(*   mu         millionths                    (0.00002215 -> 22)           *)
(*   tension    thousandths of a pound        (13.0  -> 13000)             *)
(* A distance to a midpoint (min+max)/2 is carried doubled, so that it     *)
(* stays an integer: |2*t - (min+max)|.                                    *)
(***************************************************************************)
EXTENDS Integers, Sequences, FiniteSets, TLC

VARIABLES recIn, recOut, recDone

VARIABLES guitars, selections

VARIABLES pc, run, edits, optIn, optRepaired, optOut1, pending, everSingle

VARIABLES globalTargets, loading, stateError, page, optimizing, inflight

recVars == <<recIn, recOut, recDone>>

appVars == <<guitars, selections>>

optVars == <<pc, run, edits, optIn, optRepaired, optOut1, pending, everSingle>>

uiVars == <<globalTargets, loading, stateError, page, optimizing, inflight>>

vars == <<recVars, appVars, optVars, uiVars>>

(***************************************************************************)
(* Small arithmetic helpers.                                               *)
(***************************************************************************)
Abs(x) == IF x < 0 THEN -x ELSE x

RECURSIVE Pow2(_)
Pow2(n) == IF n <= 0 THEN 1 ELSE 2 * Pow2(n - 1)

Range(s) == {s[i] : i \in DOMAIN s}

\* the value of a computation with an undefined operand (NaN); every
\* comparison with it is false
NotANumber == -1

\* the initial bestError / minDeviation of the search loops
Infinity == -2

(***************************************************************************)
(* constants: the reference data of the engine.                            *)
(***************************************************************************)
A4 == 440

\* semitone offset of each pitch class from A, within one octave
NOTE_INDEX ==
  [n \in {"C", "C#", "D", "D#", "E", "F", "F#", "G", "G#", "A", "A#", "B"} |->
     CASE n = "C"  -> -9 [] n = "C#" -> -8 [] n = "D"  -> -7 [] n = "D#" -> -6
       [] n = "E"  -> -5 [] n = "F"  -> -4 [] n = "F#" -> -3 [] n = "G"  -> -2
       [] n = "G#" -> -1 [] n = "A"  -> 0  [] n = "A#" -> 1  [] n = "B"  -> 2]

FLAT_TO_SHARP ==
  [n \in {"Db", "Eb", "Gb", "Ab", "Bb"} |->
     CASE n = "Db" -> "C#" [] n = "Eb" -> "D#" [] n = "Gb" -> "F#"
       [] n = "Ab" -> "G#" [] n = "Bb" -> "A#"]

\* gauge catalogs in ascending gauge order
PLAIN_GAUGES == <<9, 10, 13, 16, 17>>

WOUND_GAUGES == <<24, 26, 32, 36, 42, 46>>

\* gauge -> unit weight, increasing with the gauge
PLAIN_UNIT_WEIGHTS ==
  [g \in Range(PLAIN_GAUGES) |->
     CASE g = 9 -> 18 [] g = 10 -> 22 [] g = 13 -> 37 [] g = 16 -> 57
       [] g = 17 -> 64]

WOUND_UNIT_WEIGHTS ==
  [g \in Range(WOUND_GAUGES) |->
     CASE g = 24 -> 109 [] g = 26 -> 127 [] g = 32 -> 193 [] g = 36 -> 240
       [] g = 42 -> 323 [] g = 46 -> 382]

DEFAULT_TARGET_PLAIN == <<13000, 15500>>

DEFAULT_TARGET_WOUND == <<16000, 20000>>

(***************************************************************************)
(* utils/tension                                                           *)
(***************************************************************************)
\* 2^(r/12) for r = 0..11, in thousandths: the fixed-point image of Math.pow
SemitoneRatio ==
  <<1000, 1059, 1122, 1189, 1260, 1335, 1414, 1498, 1587, 1682, 1782, 1888>>

\* A4 * Math.pow(2, semitones / 12), truncated to whole Hz
FreqOfSemitones(semitones) ==
  LET q == semitones \div 12
      r == semitones % 12
  IN  IF q >= 0
        THEN (A4 * SemitoneRatio[r + 1] * Pow2(q)) \div 1000
        ELSE (A4 * SemitoneRatio[r + 1]) \div (1000 * Pow2(-q))

\* a note token is the pair of its name part (note.slice(0, -1)) and its
\* octave digit (parseInt(note.slice(-1)))
Note(name, octave) == [name |-> name, octave |-> octave]

\* the name as written, flat spellings included
noteNameNoFlats(name) == name

\* "if (name in FLAT_TO_SHARP) name = FLAT_TO_SHARP[name]"
noteName(name) ==
  IF name \in DOMAIN FLAT_TO_SHARP THEN FLAT_TO_SHARP[name] ELSE name

\* "NOTE_INDEX[name] + (octave - 4) * 12" is NaN when the name is no key of
\* NOTE_INDEX (undefined + number) or parseInt gave NaN
semitonesIsNaN(note) ==
  noteName(note.name) \notin DOMAIN NOTE_INDEX \/ note.octave = NotANumber

\* the semitone offset from A4 of a token whose offset is a number
noteSemitones(note) ==
  NOTE_INDEX[noteName(note.name)] + (note.octave - 4) * 12

\* the function has no throw statement: it returns for every token
noteToFreqRaises(note) == FALSE

noteToFreq(note) ==
  IF semitonesIsNaN(note) THEN NotANumber
  ELSE FreqOfSemitones(noteSemitones(note))

\* (2*scale*freq)^2 * mu / 386.4, the quotient by 386.4 taken before the
\* product with mu to stay within 32-bit integers
tensionFromMu(mu, scale, freq) ==
  LET x  == (2 * scale * freq) \div 10
      sq == x * x
      q  == (sq \div 3864) * 10 + ((sq % 3864) * 10) \div 3864
  IN  IF scale = NotANumber \/ freq = NotANumber THEN NotANumber
      ELSE (q * mu) \div 1000

UnitWeights(stype) ==
  IF stype = "p" THEN PLAIN_UNIT_WEIGHTS ELSE WOUND_UNIT_WEIGHTS

Gauges(stype) == IF stype = "p" THEN PLAIN_GAUGES ELSE WOUND_GAUGES

\* table[gauge] || 0
calcTension(gauge, stype, scale, freq) ==
  LET table == UnitWeights(stype)
      mu    == IF gauge \in DOMAIN table THEN table[gauge] ELSE 0
  IN  tensionFromMu(mu, scale, freq)

isInRange(tension, target) ==
  tension # NotANumber /\ tension >= target[1] /\ tension <= target[2]

\* InRangeList with the upper comparison turned round (actual >= maxT)
InRangeListUpperTurned(stype, scale, freq, target) ==
  LET gauges == Gauges(stype)
      table  == UnitWeights(stype)
  IN  SelectSeq([i \in 1..Len(gauges) |->
                   <<gauges[i], tensionFromMu(table[gauges[i]], scale, freq)>>],
                LAMBDA p : p[2] # NotANumber /\ p[2] >= target[1] /\ p[2] >= target[2])

\* the [gauge, actual] pairs of recommendGauge's first loop, in catalog order
InRangeList(stype, scale, freq, target) ==
  LET gauges == Gauges(stype)
      table  == UnitWeights(stype)
  IN  SelectSeq([i \in 1..Len(gauges) |->
                   <<gauges[i], tensionFromMu(table[gauges[i]], scale, freq)>>],
                LAMBDA p : p[2] # NotANumber /\ p[2] >= target[1] /\ p[2] <= target[2])

\* ClosestScan with "error <= bestError": the last of several equally close
\* gauges wins
RECURSIVE ClosestScanLastWins(_, _, _, _, _)
ClosestScanLastWins(pairs, from, mid2, bestGauge, bestError) ==
  IF from > Len(pairs) THEN bestGauge
  ELSE LET error == Abs(2 * pairs[from][2] - mid2)
       IN  IF pairs[from][2] # NotANumber /\ (bestError = Infinity \/ error <= bestError)
             THEN ClosestScanLastWins(pairs, from + 1, mid2, pairs[from][1], error)
             ELSE ClosestScanLastWins(pairs, from + 1, mid2, bestGauge, bestError)

\* the loop "if (error < bestError) { bestGauge = gauge; bestError = error }"
\* over pairs[from..], started from (bestGauge, bestError)
RECURSIVE ClosestScan(_, _, _, _, _)
ClosestScan(pairs, from, mid2, bestGauge, bestError) ==
  IF from > Len(pairs) THEN bestGauge
  ELSE LET error == Abs(2 * pairs[from][2] - mid2)
       IN  IF pairs[from][2] # NotANumber /\ (bestError = Infinity \/ error < bestError)
             THEN ClosestScan(pairs, from + 1, mid2, pairs[from][1], error)
             ELSE ClosestScan(pairs, from + 1, mid2, bestGauge, bestError)

\* recommendGauge whose fallback starts from bestError = 0 and never improves
recommendGaugeZeroError(stype, scale, freq, target) ==
  LET gauges  == Gauges(stype)
      mid2    == target[1] + target[2]
      inRange == InRangeList(stype, scale, freq, target)
  IN  IF Len(inRange) > 0
        THEN ClosestScan(inRange, 1, mid2, inRange[1][1],
                         Abs(2 * inRange[1][2] - mid2))
        ELSE gauges[1]

\* recommendGauge without the fallback loop: nothing in range, nothing returned
recommendGaugeNoFallback(stype, scale, freq, target) ==
  LET mid2    == target[1] + target[2]
      inRange == InRangeList(stype, scale, freq, target)
  IN  IF Len(inRange) > 0
        THEN ClosestScan(inRange, 1, mid2, inRange[1][1],
                         Abs(2 * inRange[1][2] - mid2))
        ELSE 0

recommendGauge(stype, scale, freq, target) ==
  LET table   == UnitWeights(stype)
      gauges  == Gauges(stype)
      mid2    == target[1] + target[2]
      inRange == InRangeList(stype, scale, freq, target)
      all     == [i \in 1..Len(gauges) |->
                    <<gauges[i], tensionFromMu(table[gauges[i]], scale, freq)>>]
  IN  IF Len(inRange) > 0
        THEN ClosestScan(inRange, 1, mid2, inRange[1][1],
                         Abs(2 * inRange[1][2] - mid2))
        ELSE ClosestScan(all, 1, mid2, gauges[1], Infinity)

(***************************************************************************)
(* types: guitars and selections.                                          *)
(*   scale         <<s>> for a single scale, <<treble, bass>> for a pair   *)
(*   string_types  null, or the array given                                *)
(*   selections    keyed by the guitar index 0, 1, ...; an array of        *)
(*                 selections is a sequence, entry i of the array at i + 1 *)
(***************************************************************************)
NoGauge == 0

Sel(gauge, type) == [gauge |-> gauge, type |-> type]

\* an array entry that was never assigned (undefined)
NoSel == Sel(NoGauge, "-")

NullTypes == [present |-> FALSE, types |-> <<>>]

Types(ts) == [present |-> TRUE, types |-> ts]

Guitar(name, n, scale, tuning, types, plain, wound) ==
  [name |-> name, n_strings |-> n, scale |-> scale, tuning |-> tuning,
   string_types |-> types, target_plain |-> plain, target_wound |-> wound]

\* resolveScales that divides by the string count instead of count - 1
resolveScalesByCount(scale, nStrings) ==
  IF Len(scale) = 1
    THEN [i \in 1..nStrings |-> scale[1]]
    ELSE [i \in 1..nStrings |->
            scale[1] + ((scale[2] - scale[1]) * (i - 1)) \div nStrings]

\* treble + (bass - treble) * i / (nStrings - 1), to the tenth of an inch;
\* for nStrings = 1 the quotient is 0 / 0
resolveScales(scale, nStrings) ==
  IF Len(scale) = 1
    THEN [i \in 1..nStrings |-> scale[1]]
    ELSE [i \in 1..nStrings |->
            IF nStrings = 1 THEN NotANumber
            ELSE scale[1] + ((scale[2] - scale[1]) * (i - 1)) \div (nStrings - 1)]

\* resolveStringTypes whose default rule takes the first four strings as plain
resolveStringTypesFourPlain(stringTypes, nStrings) ==
  IF stringTypes.present
    THEN stringTypes.types
    ELSE [i \in 1..nStrings |-> IF i - 1 < 4 THEN "p" ELSE "w"]

\* "if (stringTypes) return stringTypes": any array is used as given, the
\* empty one included; null gives the default rule
resolveStringTypes(stringTypes, nStrings) ==
  IF stringTypes.present
    THEN stringTypes.types
    ELSE [i \in 1..nStrings |-> IF i - 1 < 3 THEN "p" ELSE "w"]

\* guitar.tuning[i] || 'E4'
TuningAt(guitar, i) ==
  IF i \in DOMAIN guitar.tuning THEN guitar.tuning[i] ELSE Note("E", 4)

\* scales[i], undefined past the end of the array
ScaleAt(scales, i) == IF i \in DOMAIN scales THEN scales[i] ELSE NotANumber

\* types[i], undefined past the end of the array
TypeAt(types, i) == IF i \in DOMAIN types THEN types[i] ELSE "-"

TargetOf(guitar, stype) ==
  IF stype = "p" THEN guitar.target_plain ELSE guitar.target_wound

\* the body of the loop over the strings of one guitar in
\* generateDefaultSelections and in ADD_GUITAR
DefaultSelectionsFor(guitar) ==
  LET scales == resolveScales(guitar.scale, guitar.n_strings)
      types  == resolveStringTypes(guitar.string_types, guitar.n_strings)
  IN  [i \in 1..guitar.n_strings |->
         LET stype == TypeAt(types, i)
             freq  == noteToFreq(TuningAt(guitar, i))
         IN  Sel(recommendGauge(stype, ScaleAt(scales, i), freq,
                                TargetOf(guitar, stype)),
                 stype)]

generateDefaultSelections(gs) ==
  [idx \in 0..(Len(gs) - 1) |-> DefaultSelectionsFor(gs[idx + 1])]

\* the value of a key that holds undefined instead of an array
UndefinedSet == <<Sel(NoGauge, "undefined")>>

\* selections[gIdx.toString()] || []
SelOf(sels, gIdx) ==
  IF gIdx \in DOMAIN sels /\ sels[gIdx] # UndefinedSet THEN sels[gIdx] ELSE <<>>

(***************************************************************************)
(* pages/Summary: buildGaugeUsages                                         *)
(***************************************************************************)
\* the (gIdx, sIdx) pairs the two nested loops of the first pass visit
RECURSIVE UsagePositions(_, _, _)
UsagePositions(gs, sels, gIdx) ==
  IF gIdx >= Len(gs) THEN <<>>
  ELSE [s \in 1..Len(SelOf(sels, gIdx)) |-> <<gIdx, s - 1>>]
         \o UsagePositions(gs, sels, gIdx + 1)

UsageInfo(gs, sels, gIdx, sIdx) ==
  LET guitar == gs[gIdx + 1]
      sel    == SelOf(sels, gIdx)[sIdx + 1]
      scales == resolveScales(guitar.scale, guitar.n_strings)
  IN  [guitarIdx |-> gIdx, guitarName |-> guitar.name, stringIdx |-> sIdx,
       scale |-> ScaleAt(scales, sIdx + 1),
       freq |-> noteToFreq(TuningAt(guitar, sIdx + 1)),
       target |-> TargetOf(guitar, sel.type)]

\* position in acc of the usage keyed `${gauge}-${type}`, 0 when there is none
UsageIndex(acc, gauge, type) ==
  LET hits == {j \in DOMAIN acc : acc[j].gauge = gauge /\ acc[j].type = type}
  IN  IF hits = {} THEN 0 ELSE CHOOSE j \in hits : TRUE

\* first pass: the usage map, in insertion order
RECURSIVE CollectUsages(_, _, _, _, _)
CollectUsages(gs, sels, positions, k, acc) ==
  IF k > Len(positions) THEN acc
  ELSE LET gIdx == positions[k][1]
           sIdx == positions[k][2]
           sel  == SelOf(sels, gIdx)[sIdx + 1]
       IN  IF sel.gauge = NoGauge
             THEN CollectUsages(gs, sels, positions, k + 1, acc)
             ELSE LET j    == UsageIndex(acc, sel.gauge, sel.type)
                      acc1 == IF j = 0
                                THEN Append(acc, [gauge |-> sel.gauge,
                                                  type |-> sel.type,
                                                  count |-> 0,
                                                  usages |-> <<>>,
                                                  swapOption |-> <<>>])
                                ELSE acc
                      j1   == IF j = 0 THEN Len(acc1) ELSE j
                      info == UsageInfo(gs, sels, gIdx, sIdx)
                  IN  CollectUsages(gs, sels, positions, k + 1,
                        [acc1 EXCEPT ![j1].count = @ + 1,
                                     ![j1].usages = Append(@, info)])

\* Math.floor(newTension * 2) / 2 and Math.ceil(newTension * 2) / 2
FloorHalf(t) == (t \div 500) * 500

CeilHalf(t) == -(((-t) \div 500) * 500)

\* MakeSwap with "||" for "&&" in the range test
MakeSwapEitherBound(swapGauge, newTension, currentTension, target) ==
  LET tensionShift == newTension - currentTension
  IN  [gauge |-> swapGauge,
       newTension |-> newTension,
       currentTension |-> currentTension,
       tensionShift |-> tensionShift,
       direction |-> IF tensionShift > 0 THEN "up" ELSE "down",
       targetMin |-> target[1],
       targetMax |-> target[2],
       inRange |-> newTension >= target[1] \/ newTension <= target[2],
       requiredBound |-> <<>>]

\* MakeSwap that rounds the required bound inward: the low bound up, the
\* high bound down
MakeSwapRoundsInward(swapGauge, newTension, currentTension, target) ==
  LET tensionShift == newTension - currentTension
      inRange      == newTension >= target[1] /\ newTension <= target[2]
  IN  [gauge |-> swapGauge,
       newTension |-> newTension,
       currentTension |-> currentTension,
       tensionShift |-> tensionShift,
       direction |-> IF tensionShift > 0 THEN "up" ELSE "down",
       targetMin |-> target[1],
       targetMax |-> target[2],
       inRange |-> inRange,
       requiredBound |->
         IF inRange THEN <<>>
         ELSE IF newTension < target[1]
           THEN <<[type |-> "min", value |-> CeilHalf(newTension)]>>
           ELSE <<[type |-> "max", value |-> FloorHalf(newTension)]>>]

\* the SwapOption built for a candidate gauge
MakeSwap(swapGauge, newTension, currentTension, target) ==
  LET tensionShift == newTension - currentTension
      inRange      == newTension >= target[1] /\ newTension <= target[2]
  IN  [gauge |-> swapGauge,
       newTension |-> newTension,
       currentTension |-> currentTension,
       tensionShift |-> tensionShift,
       direction |-> IF tensionShift > 0 THEN "up" ELSE "down",
       targetMin |-> target[1],
       targetMax |-> target[2],
       inRange |-> inRange,
       requiredBound |->
         IF inRange THEN <<>>
         ELSE IF newTension < target[1]
           THEN <<[type |-> "min", value |-> FloorHalf(newTension)]>>
           ELSE <<[type |-> "max", value |-> CeilHalf(newTension)]>>]

\* SwapScan that takes every other group for a candidate, common or not
RECURSIVE SwapScanAnyGroup(_, _, _, _, _)
SwapScanAnyGroup(usages, usage, k, bestSwap, minDeviation) ==
  IF k > Len(usages) THEN bestSwap
  ELSE LET other  == usages[k]
           info   == usage.usages[1]
           table  == UnitWeights(usage.type)
           usable == /\ other.type = usage.type
                     /\ other.gauge # usage.gauge
                     /\ other.gauge \in DOMAIN table
                     /\ table[other.gauge] # 0
           currentTension == calcTension(usage.gauge, usage.type, info.scale, info.freq)
           newTension == calcTension(other.gauge, usage.type, info.scale, info.freq)
           deviation  == Abs(newTension - currentTension)
       IN  IF /\ usable
              /\ newTension # NotANumber
              /\ (minDeviation = Infinity \/ deviation < minDeviation)
             THEN SwapScanAnyGroup(usages, usage, k + 1,
                    <<MakeSwap(other.gauge, newTension, currentTension, info.target)>>,
                    deviation)
             ELSE SwapScanAnyGroup(usages, usage, k + 1, bestSwap, minDeviation)

\* SwapScan without "if (deviation < minDeviation)": every candidate replaces
\* the one before it
RECURSIVE SwapScanLastCandidate(_, _, _, _, _)
SwapScanLastCandidate(usages, usage, k, bestSwap, minDeviation) ==
  IF k > Len(usages) THEN bestSwap
  ELSE LET other  == usages[k]
           info   == usage.usages[1]
           table  == UnitWeights(usage.type)
           usable == /\ other.count > 1
                     /\ other.type = usage.type
                     /\ other.gauge # usage.gauge
                     /\ other.gauge \in DOMAIN table
                     /\ table[other.gauge] # 0
           currentTension == calcTension(usage.gauge, usage.type, info.scale, info.freq)
           newTension == calcTension(other.gauge, usage.type, info.scale, info.freq)
       IN  IF usable /\ newTension # NotANumber
             THEN SwapScanLastCandidate(usages, usage, k + 1,
                    <<MakeSwap(other.gauge, newTension, currentTension, info.target)>>,
                    minDeviation)
             ELSE SwapScanLastCandidate(usages, usage, k + 1, bestSwap, minDeviation)

\* the loop over otherUsage for one singleton usage: the common gauge of the
\* same type with the least deviation from the current tension
RECURSIVE SwapScan(_, _, _, _, _)
SwapScan(usages, usage, k, bestSwap, minDeviation) ==
  IF k > Len(usages) THEN bestSwap
  ELSE LET other  == usages[k]
           info   == usage.usages[1]
           table  == UnitWeights(usage.type)
           usable == /\ other.count > 1
                     /\ other.type = usage.type
                     /\ other.gauge # usage.gauge
                     /\ other.gauge \in DOMAIN table
                     /\ table[other.gauge] # 0
           currentTension == calcTension(usage.gauge, usage.type, info.scale, info.freq)
           newTension == calcTension(other.gauge, usage.type, info.scale, info.freq)
           deviation  == Abs(newTension - currentTension)
       IN  IF /\ usable
              /\ newTension # NotANumber
              /\ (minDeviation = Infinity \/ deviation < minDeviation)
             THEN SwapScan(usages, usage, k + 1,
                    <<MakeSwap(other.gauge, newTension, currentTension, info.target)>>,
                    deviation)
             ELSE SwapScan(usages, usage, k + 1, bestSwap, minDeviation)

\* IsSingleton that also takes a group of two for a singleton
IsSingletonUpToTwo(usage) == usage.count <= 2

\* "if (usage.count !== 1) continue"
IsSingleton(usage) == usage.count = 1

\* second pass: the swap option of every singleton
WithSwaps(usages) ==
  [k \in DOMAIN usages |->
     IF IsSingleton(usages[k])
       THEN [usages[k] EXCEPT
               !.swapOption = SwapScan(usages, usages[k], 1, <<>>, Infinity)]
       ELSE usages[k]]

\* usages.sort((a, b) => a.gauge - b.gauge): stable, ascending gauge
RECURSIVE SortByGauge(_)
SortByGauge(usages) ==
  IF Len(usages) <= 1 THEN usages
  ELSE LET m     == CHOOSE i \in DOMAIN usages :
                      /\ \A j \in DOMAIN usages : usages[i].gauge <= usages[j].gauge
                      /\ \A j \in 1..(i - 1) : usages[j].gauge # usages[i].gauge
           rest  == [j \in 1..(Len(usages) - 1) |->
                       IF j < m THEN usages[j] ELSE usages[j + 1]]
       IN  <<usages[m]>> \o SortByGauge(rest)

buildGaugeUsages(gs, sels) ==
  SortByGauge(WithSwaps(
    CollectUsages(gs, sels, UsagePositions(gs, sels, 0), 1, <<>>)))

\* the swap cell of an inventory row: the suggestion, "no common gauge" for a
\* singleton without one, nothing for a common gauge
SwapCell(usage) ==
  IF usage.swapOption # <<>> THEN "swap"
  ELSE IF usage.count = 1 THEN "no common gauge"
  ELSE ""

(***************************************************************************)
(* pages/Editor: singletonGauges                                           *)
(***************************************************************************)
\* the entries the two loops count: "if (sel?.gauge)"
CountedEntries(gs, sels) ==
  {p \in Range(UsagePositions(gs, sels, 0)) :
     SelOf(sels, p[1])[p[2] + 1].gauge # NoGauge}

\* the key `${sel.gauge}-${sel.type}` of an entry
EntryKey(sels, p) ==
  <<SelOf(sels, p[1])[p[2] + 1].gauge, SelOf(sels, p[1])[p[2] + 1].type>>

\* gaugeCounts: key -> number of entries with that key
gaugeCounts(gs, sels) ==
  [key \in {EntryKey(sels, p) : p \in CountedEntries(gs, sels)} |->
     Cardinality({p \in CountedEntries(gs, sels) : EntryKey(sels, p) = key})]

\* singletonGauges that takes every key with a count up to two
singletonGaugesUpToTwo(gs, sels) ==
  LET counts == gaugeCounts(gs, sels)
  IN  {key \in DOMAIN counts : counts[key] <= 2}

\* "if (count === 1) singletons.add(key)"
singletonGauges(gs, sels) ==
  LET counts == gaugeCounts(gs, sels)
  IN  {key \in DOMAIN counts : counts[key] = 1}

(***************************************************************************)
(* context/AppContext: the reducer case UPDATE_STRING_SELECTION.           *)
(***************************************************************************)
UpdateStringSelection(sels, guitarIdx, stringIdx, selection) ==
  LET old == SelOf(sels, guitarIdx)
      n   == IF stringIdx + 1 > Len(old) THEN stringIdx + 1 ELSE Len(old)
      new == [i \in 1..n |->
                IF i = stringIdx + 1 THEN selection
                ELSE IF i <= Len(old) THEN old[i] ELSE NoSel]
  IN  [k \in DOMAIN sels \cup {guitarIdx} |->
         IF k = guitarIdx THEN new ELSE sels[k]]

(***************************************************************************)
(* The optimizer behind POST /api/optimize: repair, consolidate            *)
(* singletons, repeat to a fixed point.                                    *)
(***************************************************************************)
\* the resolved class, scale, frequency and target of string i of a guitar
StringContext(guitar, i) ==
  LET scales == resolveScales(guitar.scale, guitar.n_strings)
      types  == resolveStringTypes(guitar.string_types, guitar.n_strings)
      stype  == TypeAt(types, i)
  IN  [stype |-> stype,
       scale |-> ScaleAt(scales, i),
       freq |-> noteToFreq(TuningAt(guitar, i)),
       target |-> TargetOf(guitar, stype)]

\* the selection of string i of guitar gIdx, NoSel when the set has none
CurrentSel(sels, gIdx, i) ==
  IF i \in DOMAIN SelOf(sels, gIdx) THEN SelOf(sels, gIdx)[i] ELSE NoSel

StringInRange(guitar, i, sel) ==
  LET ctx == StringContext(guitar, i)
  IN  /\ sel.gauge # NoGauge
      /\ isInRange(calcTension(sel.gauge, ctx.stype, ctx.scale, ctx.freq),
                   ctx.target)

\* Repair that recommends a gauge for every string, in range or not
RepairEveryString(gs, sels) ==
  [gIdx \in 0..(Len(gs) - 1) |->
     [i \in 1..gs[gIdx + 1].n_strings |->
        LET ctx == StringContext(gs[gIdx + 1], i)
        IN  Sel(recommendGauge(ctx.stype, ctx.scale, ctx.freq, ctx.target),
                ctx.stype)]]

\* pass 1: every string whose tension is outside its target gets the
\* recommended gauge of its own context
Repair(gs, sels) ==
  [gIdx \in 0..(Len(gs) - 1) |->
     [i \in 1..gs[gIdx + 1].n_strings |->
        LET sel == CurrentSel(sels, gIdx, i)
            ctx == StringContext(gs[gIdx + 1], i)
        IN  IF StringInRange(gs[gIdx + 1], i, sel) THEN sel
            ELSE Sel(recommendGauge(ctx.stype, ctx.scale, ctx.freq, ctx.target),
                     ctx.stype)]]

\* ConsolidationSwaps that applies a swap suggestion in range or not
ConsolidationSwapsAnyRange(gs, sels) ==
  LET usages == buildGaugeUsages(gs, sels)
      chosen == SelectSeq(usages, LAMBDA u : u.swapOption # <<>>)
  IN  [k \in DOMAIN chosen |->
         [guitarIdx |-> chosen[k].usages[1].guitarIdx,
          stringIdx |-> chosen[k].usages[1].stringIdx,
          gauge |-> chosen[k].swapOption[1].gauge]]

\* pass 2: the swaps of one pass, one for every singleton whose swap
\* suggestion keeps the string in range
ConsolidationSwaps(gs, sels) ==
  LET usages == buildGaugeUsages(gs, sels)
      chosen == SelectSeq(usages,
                  LAMBDA u : u.swapOption # <<>> /\ u.swapOption[1].inRange)
  IN  [k \in DOMAIN chosen |->
         [guitarIdx |-> chosen[k].usages[1].guitarIdx,
          stringIdx |-> chosen[k].usages[1].stringIdx,
          gauge |-> chosen[k].swapOption[1].gauge]]

ApplySwap(sels, swap) ==
  [sels EXCEPT ![swap.guitarIdx][swap.stringIdx + 1].gauge = swap.gauge]

RECURSIVE ApplySwaps(_, _)
ApplySwaps(sels, swaps) ==
  IF swaps = <<>> THEN sels
  ELSE ApplySwaps(ApplySwap(sels, Head(swaps)), Tail(swaps))

\* passes 2 and 3: consolidation passes until one finds no swap
RECURSIVE Consolidate(_, _)
Consolidate(gs, sels) ==
  LET swaps == ConsolidationSwaps(gs, sels)
  IN  IF swaps = <<>> THEN sels
      ELSE Consolidate(gs, ApplySwaps(sels, swaps))

optimize(gs, sels) == Consolidate(gs, Repair(gs, sels))

(***************************************************************************)
(* Measures of a selection set, counted directly from the selections.      *)
(***************************************************************************)
\* the strings that carry a selection: <<guitar index, string index>>
Strings(gs, sels) ==
  {p \in (0..(Len(gs) - 1)) \X (0..11) :
     /\ p[2] + 1 \in DOMAIN SelOf(sels, p[1])
     /\ SelOf(sels, p[1])[p[2] + 1].gauge # NoGauge}

PairAt(sels, p) == SelOf(sels, p[1])[p[2] + 1]

DistinctPairs(gs, sels) == {PairAt(sels, p) : p \in Strings(gs, sels)}

PairCount(gs, sels, pair) ==
  Cardinality({p \in Strings(gs, sels) : PairAt(sels, p) = pair})

SingletonStrings(gs, sels) ==
  {p \in Strings(gs, sels) : PairCount(gs, sels, PairAt(sels, p)) = 1}

\* the tension of string p under the selection set, in its resolved context
TensionAt(gs, sels, p) ==
  LET ctx == StringContext(gs[p[1] + 1], p[2] + 1)
  IN  calcTension(CurrentSel(sels, p[1], p[2] + 1).gauge, ctx.stype,
                  ctx.scale, ctx.freq)

\* string p has a selection whose tension lies within its target range
WithinTarget(gs, sels, p) ==
  LET ctx == StringContext(gs[p[1] + 1], p[2] + 1)
      t   == TensionAt(gs, sels, p)
  IN  /\ CurrentSel(sels, p[1], p[2] + 1).gauge # NoGauge
      /\ ctx.target[1] <= t /\ t <= ctx.target[2]

\* some catalog gauge of the resolved class of string p is within its target
Reachable(gs, p) ==
  LET ctx == StringContext(gs[p[1] + 1], p[2] + 1)
  IN  \E g \in Range(Gauges(ctx.stype)) :
        LET t == calcTension(g, ctx.stype, ctx.scale, ctx.freq)
        IN  ctx.target[1] <= t /\ t <= ctx.target[2]

AllStrings(gs) ==
  {p \in (0..(Len(gs) - 1)) \X (0..11) : p[2] < gs[p[1] + 1].n_strings}

(***************************************************************************)
(* Values of the variables a specification does not use.                   *)
(***************************************************************************)
RecIdle ==
  /\ recIn = [stype |-> "p", scale |-> 0, freq |-> 0, target |-> <<0, 0>>]
  /\ recOut = NoGauge
  /\ recDone = FALSE

\* the state of the pages outside the application specifications: the editor
\* shown, no request in flight
UiIdle ==
  /\ globalTargets = [plain |-> DEFAULT_TARGET_PLAIN, wound |-> DEFAULT_TARGET_WOUND]
  /\ loading = FALSE
  /\ stateError = FALSE
  /\ page = "editor"
  /\ optimizing = FALSE
  /\ inflight = <<>>

AppIdle ==
  /\ guitars = <<>>
  /\ selections = <<>>
  /\ UiIdle

OptIdle ==
  /\ pc = "idle"
  /\ run = 0
  /\ edits = 0
  /\ optIn = <<>>
  /\ optRepaired = <<>>
  /\ optOut1 = <<>>
  /\ pending = <<>>
  /\ everSingle = {}

(***************************************************************************)
(* The recommender applied to one string context.                          *)
(***************************************************************************)
RecScales == {255, 270}

RecFreqs == {82, 110, 146, 196, 246, 329}

\* target bounds: the defaults, zero, and the tensions of the first strings
\* of the default instrument (so that a range can end exactly on a gauge)
RecBounds ==
  {0, 13000, 15500, 16000, 20000}
    \cup {calcTension(g, "p", 255, 329) : g \in {9, 10, 13}}
    \cup {calcTension(g, "w", 255, 110) : g \in {32, 36, 42}}

RecInit ==
  /\ recIn \in [stype : {"p", "w"}, scale : RecScales, freq : RecFreqs,
                target : RecBounds \X RecBounds]
  /\ recOut = NoGauge
  /\ recDone = FALSE
  /\ AppIdle
  /\ OptIdle

Recommend ==
  /\ ~recDone
  /\ recOut' = recommendGauge(recIn.stype, recIn.scale, recIn.freq, recIn.target)
  /\ recDone' = TRUE
  /\ UNCHANGED <<uiVars, recIn, appVars, optVars>>

RecNext == Recommend

SpecRec == RecInit /\ [][RecNext]_vars

(***************************************************************************)
(* Properties of recommendGauge (SpecRec).                                 *)
(***************************************************************************)
\* the catalog gauges of the class whose tension lies in [min, max]
RecInRangeSet ==
  {g \in Range(Gauges(recIn.stype)) :
     LET t == calcTension(g, recIn.stype, recIn.scale, recIn.freq)
     IN  recIn.target[1] <= t /\ t <= recIn.target[2]}

\* doubled distance of the tension of gauge g from the midpoint of the target
RecError(g) ==
  Abs(2 * calcTension(g, recIn.stype, recIn.scale, recIn.freq)
        - (recIn.target[1] + recIn.target[2]))

\* C1: when some catalog gauge of the class has its tension within [min,max],
\* the tension of the gauge recommendGauge returns lies within [min,max].
C1_InRangeGuarantee ==
  (recDone /\ RecInRangeSet # {}) =>
     LET t == calcTension(recOut, recIn.stype, recIn.scale, recIn.freq)
     IN  recIn.target[1] <= t /\ t <= recIn.target[2]

\* a recommendation made where some gauges are in range and a lighter one is not
C1_Witness ==
  /\ recDone
  /\ RecInRangeSet # {}
  /\ Gauges(recIn.stype)[1] \notin RecInRangeSet
  /\ Gauges(recIn.stype)[Len(Gauges(recIn.stype))] \notin RecInRangeSet

\* C2: when the in-range set is not empty, the returned gauge is the in-range
\* gauge closest to the midpoint, and of several equally close ones the
\* smallest gauge (first in catalog order).
C2_SelectionRule ==
  (recDone /\ RecInRangeSet # {}) =>
     /\ recOut \in RecInRangeSet
     /\ \A h \in RecInRangeSet :
          /\ RecError(recOut) <= RecError(h)
          /\ RecError(h) = RecError(recOut) => recOut <= h

\* a recommendation made where two in-range gauges are equally close
C2_Witness ==
  /\ recDone
  /\ recOut \in RecInRangeSet
  /\ \E h \in RecInRangeSet : h # recOut /\ RecError(h) = RecError(recOut)

\* C3: when no catalog gauge of the class is in range, the returned gauge is
\* at least as close to the midpoint as every catalog gauge of the class.
C3_Fallback ==
  (recDone /\ RecInRangeSet = {}) =>
     \A h \in Range(Gauges(recIn.stype)) : RecError(recOut) <= RecError(h)

\* a fallback recommendation, for a well-formed target, of a gauge that is not
\* the first of the catalog
C3_Witness ==
  /\ recDone
  /\ RecInRangeSet = {}
  /\ recIn.target[1] <= recIn.target[2]
  /\ recOut # Gauges(recIn.stype)[1]

\* C4: for every input, a target with min > max included, recommendGauge
\* returns, and what it returns is a gauge of the catalog of the class asked.
C4_Totality ==
  /\ ~recDone => ENABLED Recommend
  /\ recDone => recOut \in Range(Gauges(recIn.stype))

\* a recommendation made for a malformed target
C4_Witness ==
  /\ recDone
  /\ recIn.target[1] > recIn.target[2]
  /\ recOut \in Range(Gauges(recIn.stype))

(***************************************************************************)
(* The optimizer run on an instrument set: the selection set is edited a   *)
(* few times from its starting value, optimized, and optimized again.      *)
(***************************************************************************)
MaxEdits == 2

\* the number of user actions followed in the application
MaxSteps == 2

\* the gauges picked in a gauge dropdown
EditGauges == {9, 10, 13, 17, 24, 32}

Std6 ==
  <<Note("E", 4), Note("B", 3), Note("G", 3), Note("D", 3), Note("A", 2),
    Note("E", 2)>>

\* the guitar "Add Guitar" creates, with the default global targets
DefaultGuitar ==
  Guitar(<<"Guitar", 1>>, 6, <<255>>, Std6, NullTypes,
         DEFAULT_TARGET_PLAIN, DEFAULT_TARGET_WOUND)

WideGuitar ==
  Guitar(<<"Wide", 0>>, 4, <<255>>,
         <<Note("E", 4), Note("E", 4), Note("E", 4), Note("D", 3)>>,
         NullTypes, <<12000, 17000>>, <<15000, 24000>>)

LongGuitar ==
  Guitar(<<"Long", 0>>, 4, <<270>>,
         <<Note("E", 4), Note("B", 3), Note("G", 3), Note("D", 3)>>,
         NullTypes, <<12000, 17000>>, <<15000, 24000>>)

FanGuitar ==
  Guitar(<<"Fan", 0>>, 4, <<255, 270>>,
         <<Note("E", 4), Note("Bb", 3), Note("D", 3), Note("A", 2)>>,
         Types(<<"p", "p", "w", "w">>), DEFAULT_TARGET_PLAIN, <<15000, 24000>>)

DropGuitar ==
  Guitar(<<"Drop", 0>>, 4, <<255>>,
         <<Note("E", 4), Note("D", 4), Note("G", 3), Note("D", 3)>>,
         NullTypes, <<12000, 17000>>, <<15000, 24000>>)

TwinGuitar ==
  Guitar(<<"Twin", 0>>, 6, <<255>>,
         <<Note("E", 4), Note("E", 4), Note("E", 4),
           Note("G", 3), Note("G", 3), Note("G", 3)>>,
         Types(<<"p", "p", "p", "p", "p", "p">>),
         <<12000, 17000>>, DEFAULT_TARGET_WOUND)

OptScenarios ==
  {<<DefaultGuitar>>, <<WideGuitar>>, <<DropGuitar>>, <<TwinGuitar>>,
   <<WideGuitar, LongGuitar>>, <<LongGuitar, FanGuitar>>}

OptInit ==
  /\ RecIdle
  /\ UiIdle
  /\ guitars \in OptScenarios
  /\ selections \in {generateDefaultSelections(guitars), <<>>}
  /\ pc = "edit"
  /\ run = 0
  /\ edits = 0
  /\ optIn = <<>>
  /\ optRepaired = <<>>
  /\ optOut1 = <<>>
  /\ pending = <<>>
  /\ everSingle = {}

\* a page renders its controls when loading is false and error is null
Interactive(shown) == ~loading /\ ~stateError /\ page = shown

\* GuitarCard.handleGaugeChange: the gauge dropdown of one string
GaugeChange(index, stringIdx, gauge) ==
  LET guitar      == guitars[index + 1]
      types       == resolveStringTypes(guitar.string_types, guitar.n_strings)
      current     == CurrentSel(selections, index, stringIdx + 1)
      currentType == IF current = NoSel THEN TypeAt(types, stringIdx + 1)
                     ELSE current.type
  IN  /\ pc \in {"edit", "fetched", "ready"}
      /\ Interactive("editor")
      /\ edits < (IF pc = "edit" THEN MaxEdits ELSE MaxSteps)
      /\ gauge \in Range(Gauges(currentType))
      /\ selections' = UpdateStringSelection(selections, index, stringIdx,
                                             Sel(gauge, currentType))
      /\ selections' # selections
      /\ edits' = edits + 1
      /\ UNCHANGED <<uiVars, recVars, guitars, pc, run, optIn, optRepaired, optOut1,
                     pending, everSingle>>

\* the request is sent with the current selection set
OptStart ==
  /\ pc = "edit"
  /\ pc' = "repair"
  /\ run' = 1
  /\ optIn' = selections
  /\ everSingle' = SingletonStrings(guitars, selections)
  /\ UNCHANGED <<uiVars, recVars, appVars, edits, optRepaired, optOut1, pending>>

RepairStep ==
  /\ pc = "repair"
  /\ selections' = Repair(guitars, selections)
  /\ optRepaired' = IF run = 1 THEN selections' ELSE optRepaired
  /\ everSingle' = everSingle \cup SingletonStrings(guitars, selections')
  /\ pc' = "consolidate"
  /\ UNCHANGED <<uiVars, recVars, guitars, run, edits, optIn, optOut1, pending>>

\* a consolidation pass begins: the usage groups are recomputed and the
\* swaps of the pass are fixed
PassBegin ==
  /\ pc = "consolidate"
  /\ ConsolidationSwaps(guitars, selections) # <<>>
  /\ pending' = ConsolidationSwaps(guitars, selections)
  /\ pc' = "swap"
  /\ UNCHANGED <<uiVars, recVars, appVars, run, edits, optIn, optRepaired, optOut1,
                 everSingle>>

\* SwapStep that ends the run after the first swap of the pass
SwapStepEndsRun ==
  /\ pc = "swap"
  /\ selections' = ApplySwap(selections, Head(pending))
  /\ pending' = <<>>
  /\ pc' = "done"
  /\ everSingle' = everSingle \cup SingletonStrings(guitars, selections')
  /\ UNCHANGED <<uiVars, recVars, guitars, run, edits, optIn, optRepaired, optOut1>>

\* one swap of the pass is applied; after the last one the groups are
\* recomputed
SwapStep ==
  /\ pc = "swap"
  /\ selections' = ApplySwap(selections, Head(pending))
  /\ pending' = Tail(pending)
  /\ pc' = IF Tail(pending) = <<>> THEN "consolidate" ELSE "swap"
  /\ everSingle' = everSingle \cup SingletonStrings(guitars, selections')
  /\ UNCHANGED <<uiVars, recVars, guitars, run, edits, optIn, optRepaired, optOut1>>

\* the fixed point: no singleton has a swap that keeps it in range
OptFinish ==
  /\ pc = "consolidate"
  /\ ConsolidationSwaps(guitars, selections) = <<>>
  /\ pc' = "done"
  /\ UNCHANGED <<uiVars, recVars, appVars, run, edits, optIn, optRepaired, optOut1,
                 pending, everSingle>>

\* optimize is called again on its own output
OptAgain ==
  /\ pc = "done"
  /\ run = 1
  /\ optOut1' = selections
  /\ run' = 2
  /\ pc' = "repair"
  /\ UNCHANGED <<uiVars, recVars, appVars, edits, optIn, optRepaired, pending,
                 everSingle>>

OptNext ==
  \/ \E index \in 0..(Len(guitars) - 1) :
       \E stringIdx \in 0..(guitars[index + 1].n_strings - 1) :
         \E gauge \in EditGauges : GaugeChange(index, stringIdx, gauge)
  \/ OptStart
  \/ RepairStep
  \/ PassBegin
  \/ SwapStep
  \/ OptFinish
  \/ OptAgain

SpecOpt == OptInit /\ [][OptNext]_vars

\* the step machine computes what optimize computes
OptStepsAgree ==
  (pc = "done" /\ run = 1) => selections = optimize(guitars, optIn)

(***************************************************************************)
(* Properties of the optimizer (SpecOpt).                                   *)
(***************************************************************************)
NumDistinct(sels) == Cardinality(DistinctPairs(guitars, sels))

NumSingletons(sels) == Cardinality(SingletonStrings(guitars, sels))

\* C5: optimize applied to its own output returns that output unchanged, and
\* the number of distinct (gauge, class) pairs stays the same.
C5_Idempotent ==
  (pc = "done" /\ run = 2) =>
     /\ selections = optOut1
     /\ NumDistinct(selections) = NumDistinct(optOut1)

\* a second run completed after a first run that repaired and consolidated
C5_Witness ==
  /\ pc = "done"
  /\ run = 2
  /\ optRepaired # optIn
  /\ optOut1 # optRepaired

\* C6 as claimed: the output never has more distinct (gauge, class) pairs
\* than the input, whatever the input.
C6_MonotoneAnyInput ==
  (pc = "done" /\ run = 1) => NumDistinct(selections) <= NumDistinct(optIn)

\* C6 amended: the output has no more distinct pairs than the selection set
\* the repair pass produced, and no more than the input when every string of
\* the input was already inside its target range.
C6_MonotoneAfterRepair ==
  (pc = "done" /\ run = 1) =>
     /\ NumDistinct(selections) <= NumDistinct(optRepaired)
     /\ (\A p \in AllStrings(guitars) : WithinTarget(guitars, optIn, p))
          => NumDistinct(selections) <= NumDistinct(optIn)

\* a run on an input with every string in range that ended with fewer pairs
C6_Witness ==
  /\ pc = "done"
  /\ run = 1
  /\ \A p \in AllStrings(guitars) : WithinTarget(guitars, optIn, p)
  /\ NumDistinct(selections) < NumDistinct(optIn)

\* the loop variant: twice the number of singleton groups, plus one while a
\* pass is about to begin
LoopRank(p, sels) ==
  CASE p = "consolidate" -> 2 * NumSingletons(sels) + 1
    [] p = "swap" -> 2 * NumSingletons(sels)
    [] OTHER -> 0

\* a consolidating swap strictly decreases the number of singleton groups
SwapDecreasesSingletons ==
  pc = "swap" => NumSingletons(selections') < NumSingletons(selections)

\* a step of the consolidation loop decreases the variant, which stays >= 0
LoopRankDecreases ==
  pc \in {"consolidate", "swap"} =>
     /\ LoopRank(pc', selections') < LoopRank(pc, selections)
     /\ LoopRank(pc', selections') >= 0

\* while the run is in the swap phase a swap is pending, so the loop never
\* stops short of its fixed point
LoopStepPossible ==
  pc' = "swap" => pending' # <<>>

\* C7: every consolidating swap strictly decreases the number of singleton
\* groups, and the consolidation loop terminates: every step of it decreases
\* a variant that is never negative, and a step is possible until the fixed
\* point is reached.
C7_Terminates ==
  [][SwapDecreasesSingletons /\ LoopRankDecreases /\ LoopStepPossible]_vars

\* a run that ended after at least one consolidating swap
C7_Witness ==
  /\ pc = "done"
  /\ run = 1
  /\ selections # optRepaired
  /\ NumSingletons(selections) < NumSingletons(optRepaired)

\* C8: in the output every string that some catalog gauge of its class can
\* bring inside its target range has a tension inside its target range.
C8_OutputInRange ==
  (pc = "done") =>
     \A p \in AllStrings(guitars) :
        Reachable(guitars, p) => WithinTarget(guitars, selections, p)

\* the six-string default instrument optimized from an empty selection set:
\* six gauges, each inside its target range
C8_Witness ==
  /\ pc = "done"
  /\ run = 1
  /\ guitars = <<DefaultGuitar>>
  /\ optIn = <<>>
  /\ Len(SelOf(selections, 0)) = 6
  /\ \A p \in AllStrings(guitars) : WithinTarget(guitars, selections, p)

\* C9: the repair pass changes only strings outside their target range, a
\* consolidation swap changes only a string that is a singleton when it is
\* applied, and so a string in range in the input whose pair is never a
\* singleton during the run leaves the run with the selection it came with.
C9_MinimalChange ==
  /\ [][\A p \in AllStrings(guitars) :
          (/\ pc \in {"repair", "swap"}
           /\ CurrentSel(selections', p[1], p[2] + 1)
                # CurrentSel(selections, p[1], p[2] + 1))
          => \/ pc = "repair" /\ ~WithinTarget(guitars, selections, p)
             \/ pc = "swap" /\ p \in SingletonStrings(guitars, selections)]_vars
  /\ [](pc = "done" /\ run = 1 =>
          \A p \in AllStrings(guitars) :
             (WithinTarget(guitars, optIn, p) /\ p \notin everSingle)
             => CurrentSel(selections, p[1], p[2] + 1)
                  = CurrentSel(optIn, p[1], p[2] + 1))

\* a run that repaired one string and swapped another while a third, in range
\* and never a singleton, kept its selection
C9_Witness ==
  /\ pc = "done"
  /\ run = 1
  /\ optRepaired # optIn
  /\ selections # optRepaired
  /\ \E p \in AllStrings(guitars) :
        WithinTarget(guitars, optIn, p) /\ p \notin everSingle

(***************************************************************************)
(* The application: context/AppContext (reducer, loadGuitars),             *)
(* pages/Editor, pages/Summary, components/GuitarCard and                  *)
(* components/GlobalTargets.                                               *)
(*   pc = "loading"  loadGuitars awaits the guitars                        *)
(*   pc = "fetched"  SET_GUITARS dispatched, the optimize request in flight *)
(*   pc = "ready"    SET_SELECTIONS dispatched                             *)
(*   pc = "failed"   SET_ERROR dispatched by loadGuitars                   *)
(*   stateError      state.error is not null                               *)
(*   page            the route shown: "summary" or "editor"                *)
(*   optimizing      the flag of the Summary page that is mounted          *)
(*   inflight        the requests of runOptimize not yet answered          *)
(***************************************************************************)
MaxGuitars == 2

\* the string counts offered by the Strings select: 4 .. 12
MinNStrings == 4

MaxNStrings == 6

\* what GET /api/guitars may answer
FetchChoices == {<<DefaultGuitar>>, <<WideGuitar, LongGuitar>>, <<TwinGuitar>>}

\* the bounds typed into the target fields
TargetChoices ==
  {[plain |-> DEFAULT_TARGET_PLAIN, wound |-> DEFAULT_TARGET_WOUND],
   [plain |-> <<12000, 17000>>, wound |-> <<15000, 24000>>]}

\* the values typed into one field of the global targets
TargetValues == {12000}

\* the notes typed into a note field
EditNotes == {Note("D", 3)}

\* the gauges picked while an optimize request is in flight
AsyncGauges == {10, 26}

Init ==
  /\ RecIdle
  /\ guitars = <<>>
  /\ selections = <<>>
  /\ globalTargets = [plain |-> DEFAULT_TARGET_PLAIN, wound |-> DEFAULT_TARGET_WOUND]
  /\ loading = TRUE
  /\ stateError = FALSE
  /\ page \in {"summary", "editor"}
  /\ optimizing = FALSE
  /\ inflight = <<>>
  /\ pc = "loading"
  /\ run = 0
  /\ edits = 0
  /\ optIn = <<>>
  /\ optRepaired = <<>>
  /\ optOut1 = <<>>
  /\ pending = <<>>
  /\ everSingle = {}

appFrame == <<recVars, run, optRepaired, optOut1, pending, everSingle>>

\* loadGuitars up to its second await: SET_GUITARS, then the optimize request
\* is sent with the guitars fetched and their default selections
FetchGuitars ==
  /\ pc = "loading"
  /\ \E fetched \in FetchChoices :
       /\ guitars' = fetched
       /\ optIn' = [gs |-> fetched, sels |-> generateDefaultSelections(fetched)]
  /\ loading' = FALSE
  /\ pc' = "fetched"
  /\ UNCHANGED <<selections, edits, globalTargets, stateError, page, optimizing,
                 inflight, appFrame>>

\* a SET_ERROR that leaves loading as it is
FetchFailsKeepsLoading ==
  /\ pc = "loading"
  /\ stateError' = TRUE
  /\ pc' = "failed"
  /\ UNCHANGED <<guitars, selections, edits, optIn, globalTargets, page,
                 optimizing, inflight, loading, appFrame>>

\* loadGuitars when fetchGuitars throws: SET_ERROR
FetchFails ==
  /\ pc = "loading"
  /\ stateError' = TRUE
  /\ loading' = FALSE
  /\ pc' = "failed"
  /\ UNCHANGED <<guitars, selections, edits, optIn, globalTargets, page,
                 optimizing, inflight, appFrame>>

\* loadGuitars after its second await: SET_SELECTIONS with the response
LoadSelections ==
  /\ pc = "fetched"
  /\ selections' = optimize(optIn.gs, optIn.sels)
  /\ pc' = "ready"
  /\ optIn' = <<>>
  /\ UNCHANGED <<guitars, edits, uiVars, appFrame>>

\* loadGuitars when optimizeGauges throws: SET_ERROR
LoadOptimizeFails ==
  /\ pc = "fetched"
  /\ stateError' = TRUE
  /\ loading' = FALSE
  /\ pc' = "failed"
  /\ optIn' = <<>>
  /\ UNCHANGED <<guitars, selections, edits, globalTargets, page, optimizing,
                 inflight, appFrame>>

\* the NavLinks of the header: the page left is unmounted, and with the
\* Summary page its optimizing flag; the page entered is mounted afresh
Navigate ==
  /\ page' = (IF page = "summary" THEN "editor" ELSE "summary")
  /\ optimizing' = FALSE
  /\ inflight' = [k \in DOMAIN inflight |-> [inflight[k] EXCEPT !.owner = FALSE]]
  /\ UNCHANGED <<guitars, selections, pc, edits, optIn, globalTargets, loading,
                 stateError, appFrame>>

\* ADD_GUITAR with the default targets instead of the global targets
AddGuitarDefaultTargets ==
  LET newGuitar == Guitar(<<"Guitar", Len(guitars) + 1>>, 6, <<255>>, Std6,
                          NullTypes, DEFAULT_TARGET_PLAIN, DEFAULT_TARGET_WOUND)
      idx       == Len(guitars)
  IN  /\ Interactive("editor")
      /\ Len(guitars) < MaxGuitars
      /\ edits < MaxSteps
      /\ edits' = edits + 1
      /\ guitars' = Append(guitars, newGuitar)
      /\ selections' = [k \in DOMAIN selections \cup {idx} |->
                          IF k = idx THEN DefaultSelectionsFor(newGuitar)
                          ELSE selections[k]]
      /\ UNCHANGED <<pc, optIn, uiVars, appFrame>>

\* Editor.handleAddGuitar and the reducer case ADD_GUITAR
AddGuitar ==
  LET newGuitar == Guitar(<<"Guitar", Len(guitars) + 1>>, 6, <<255>>, Std6,
                          NullTypes, globalTargets.plain, globalTargets.wound)
      idx       == Len(guitars)
  IN  /\ Interactive("editor")
      /\ Len(guitars) < MaxGuitars
      /\ edits < MaxSteps
      /\ edits' = edits + 1
      /\ guitars' = Append(guitars, newGuitar)
      /\ selections' = [k \in DOMAIN selections \cup {idx} |->
                          IF k = idx THEN DefaultSelectionsFor(newGuitar)
                          ELSE selections[k]]
      /\ UNCHANGED <<pc, optIn, uiVars, appFrame>>

\* the indices state.guitars.filter keeps
KeptIndices(index) ==
  SelectSeq([i \in 1..Len(guitars) |-> i - 1], LAMBDA i : i # index)

\* DELETE_GUITAR that drops the key of the deleted guitar and renumbers none
DeleteGuitarKeepsKeys(index) ==
  LET kept == KeptIndices(index)
  IN  /\ Interactive("editor")
      /\ index \in 0..(Len(guitars) - 1)
      /\ edits < MaxSteps
      /\ edits' = edits + 1
      /\ guitars' = [n \in 1..Len(kept) |-> guitars[kept[n] + 1]]
      /\ selections' = [k \in DOMAIN selections \ {index} |-> selections[k]]
      /\ UNCHANGED <<pc, optIn, uiVars, appFrame>>

\* Editor.handleDeleteGuitar and the reducer case DELETE_GUITAR: new key n
\* gets state.selections[i] of the n-th guitar kept, undefined when the old
\* key is missing
DeleteGuitar(index) ==
  LET kept == KeptIndices(index)
  IN  /\ Interactive("editor")
      /\ index \in 0..(Len(guitars) - 1)
      /\ edits < MaxSteps
      /\ edits' = edits + 1
      /\ guitars' = [n \in 1..Len(kept) |-> guitars[kept[n] + 1]]
      /\ selections' = [n \in 0..(Len(kept) - 1) |->
                          IF kept[n + 1] \in DOMAIN selections
                            THEN selections[kept[n + 1]] ELSE UndefinedSet]
      /\ UNCHANGED <<pc, optIn, uiVars, appFrame>>

\* standardTunings[newNStrings] || standardTunings[6]
StandardTuning(n) ==
  LET four  == <<Note("G", 3), Note("D", 3), Note("A", 2), Note("E", 2)>>
      low   == <<Note("B", 1), Note("F#", 1)>>
  IN  CASE n = 4 -> four
        [] n = 5 -> four \o SubSeq(low, 1, 1)
        [] n = 7 -> Std6 \o SubSeq(low, 1, 1)
        [] n = 8 -> Std6 \o low
        [] OTHER -> Std6

\* the tuning handleNStringsChange computes
RECURSIVE GrowTuning(_, _, _)
GrowTuning(tuning, standard, n) ==
  IF Len(tuning) >= n THEN tuning
  ELSE GrowTuning(Append(tuning,
                         IF Len(tuning) + 1 \in DOMAIN standard
                           THEN standard[Len(tuning) + 1] ELSE Note("E", 2)),
                  standard, n)

NewTuning(currentTuning, newNStrings) ==
  IF newNStrings < Len(currentTuning)
    THEN SubSeq(currentTuning, 1, newNStrings)
    ELSE GrowTuning(currentTuning, StandardTuning(newNStrings), newNStrings)

\* the loop "for (let i = selections.length; i < newNStrings; i++)": one
\* UPDATE_STRING_SELECTION for every string past the selections the card holds
RECURSIVE GrowSelections(_, _, _, _, _)
GrowSelections(sels, index, guitar, newGuitar, i) ==
  IF i >= newGuitar.n_strings THEN sels
  ELSE LET newScales == resolveScales(guitar.scale, newGuitar.n_strings)
           newTypes  == resolveStringTypes(guitar.string_types, newGuitar.n_strings)
           stype     == TypeAt(newTypes, i + 1)
           freq      == noteToFreq(TuningAt(newGuitar, i + 1))
           gauge     == recommendGauge(stype, ScaleAt(newScales, i + 1), freq,
                                       TargetOf(guitar, stype))
       IN  GrowSelections(
             UpdateStringSelection(sels, index, i, Sel(gauge, stype)),
             index, guitar, newGuitar, i + 1)

\* GuitarCard.handleNStringsChange: UPDATE_GUITAR with the new string count
\* and tuning, then the selections of the new strings
NStringsChange(index, newNStrings) ==
  LET guitar    == guitars[index + 1]
      newGuitar == [guitar EXCEPT !.n_strings = newNStrings,
                                  !.tuning = NewTuning(guitar.tuning, newNStrings)]
  IN  /\ Interactive("editor")
      /\ index \in 0..(Len(guitars) - 1)
      /\ newNStrings # guitar.n_strings
      /\ edits < MaxSteps
      /\ edits' = edits + 1
      /\ guitars' = [guitars EXCEPT ![index + 1] = newGuitar]
      /\ selections' = GrowSelections(selections, index, guitar, newGuitar,
                                      Len(SelOf(selections, index)))
      /\ UNCHANGED <<pc, optIn, uiVars, appFrame>>

\* "newTuning[stringIdx] = note" on a copy of the tuning; an index past the
\* end leaves holes, which every reader takes as 'E4'
SetNote(tuning, stringIdx, note) ==
  [i \in 1..(IF stringIdx + 1 > Len(tuning) THEN stringIdx + 1 ELSE Len(tuning)) |->
     IF i = stringIdx + 1 THEN note
     ELSE IF i <= Len(tuning) THEN tuning[i] ELSE Note("E", 4)]

\* GuitarCard.handleNoteChange: the note field of one string
NoteChange(index, stringIdx, note) ==
  LET guitar == guitars[index + 1]
  IN  /\ Interactive("editor")
      /\ index \in 0..(Len(guitars) - 1)
      /\ stringIdx \in 0..(guitar.n_strings - 1)
      /\ TuningAt(guitar, stringIdx + 1) # note
      /\ edits < MaxSteps
      /\ edits' = edits + 1
      /\ guitars' = [guitars EXCEPT ![index + 1].tuning =
                       SetNote(guitar.tuning, stringIdx, note)]
      /\ UNCHANGED <<selections, pc, optIn, uiVars, appFrame>>

\* GlobalTargets.handlePlainChange and handleWoundChange: SET_GLOBAL_TARGETS
\* with one bound of one class replaced
SetGlobalTargets(kind, idx, value) ==
  /\ Interactive("editor")
  /\ globalTargets[kind][idx] # value
  /\ edits < MaxSteps
  /\ edits' = edits + 1
  /\ globalTargets' = [globalTargets EXCEPT ![kind][idx] = value]
  /\ UNCHANGED <<guitars, selections, pc, optIn, loading, stateError, page,
                 optimizing, inflight, appFrame>>

\* APPLY_GLOBAL_TARGETS that copies the plain target only
ApplyGlobalTargetsPlainOnly ==
  /\ Interactive("editor")
  /\ edits < MaxSteps
  /\ edits' = edits + 1
  /\ guitars' = [i \in DOMAIN guitars |->
                   [guitars[i] EXCEPT !.target_plain = globalTargets.plain]]
  /\ UNCHANGED <<selections, pc, optIn, uiVars, appFrame>>

\* GlobalTargets.applyToAll and the reducer case APPLY_GLOBAL_TARGETS
ApplyGlobalTargets ==
  /\ Interactive("editor")
  /\ edits < MaxSteps
  /\ edits' = edits + 1
  /\ guitars' = [i \in DOMAIN guitars |->
                   [guitars[i] EXCEPT !.target_plain = globalTargets.plain,
                                      !.target_wound = globalTargets.wound]]
  /\ UNCHANGED <<selections, pc, optIn, uiVars, appFrame>>

\* an optimize request in flight: what was sent, the bounds of a Summary
\* request, and whether the Summary page that sent it is still mounted
Request(origin, bounds, gs, sels) ==
  [origin |-> origin, owner |-> origin = "summary", bounds |-> bounds,
   gs |-> gs, sels |-> sels]

\* Editor.handleOptimize: runOptimize() sends the guitars and selections of
\* the state rendered
EditorOptimize ==
  /\ Interactive("editor")
  /\ edits < MaxSteps
  /\ edits' = edits + 1
  /\ inflight' = Append(inflight, Request("editor", <<>>, guitars, selections))
  /\ UNCHANGED <<guitars, selections, pc, optIn, globalTargets, loading, stateError,
                 page, optimizing, appFrame>>

\* Summary.handleOptimize up to its await: the flag, SET_GLOBAL_TARGETS,
\* SET_GUITARS with the bounds on every guitar, and the request sent
SummaryOptimize(bounds) ==
  LET updatedGuitars ==
        [i \in DOMAIN guitars |->
           [guitars[i] EXCEPT !.target_plain = bounds.plain,
                              !.target_wound = bounds.wound]]
  IN  /\ Interactive("summary")
      /\ ~optimizing
      /\ edits < MaxSteps
      /\ edits' = edits + 1
      /\ optimizing' = TRUE
      /\ globalTargets' = bounds
      /\ guitars' = updatedGuitars
      /\ loading' = FALSE
      /\ inflight' = Append(inflight,
                            Request("summary", <<bounds>>, updatedGuitars, selections))
      /\ UNCHANGED <<selections, pc, optIn, stateError, page, appFrame>>

\* the sequence without its k-th element
Without(seq, k) == SubSeq(seq, 1, k - 1) \o SubSeq(seq, k + 1, Len(seq))

\* runOptimize after its await: SET_SELECTIONS with the response; then, in
\* Summary.handleOptimize, setOptimizing(false) on the page that sent it
OptimizeSucceeds(k) ==
  /\ k \in DOMAIN inflight
  /\ selections' = optimize(inflight[k].gs, inflight[k].sels)
  /\ optimizing' = (IF inflight[k].owner THEN FALSE ELSE optimizing)
  /\ inflight' = Without(inflight, k)
  /\ UNCHANGED <<guitars, pc, edits, optIn, globalTargets, loading, stateError, page,
                 appFrame>>

\* a failing request that leaves the flag of the Summary page set
OptimizeFailsKeepsFlag(k) ==
  /\ k \in DOMAIN inflight
  /\ stateError' = TRUE
  /\ loading' = FALSE
  /\ inflight' = Without(inflight, k)
  /\ UNCHANGED <<guitars, selections, pc, edits, optIn, globalTargets, page,
                 optimizing, appFrame>>

\* runOptimize when optimizeGauges throws: SET_ERROR; then setOptimizing(false)
OptimizeFails(k) ==
  /\ k \in DOMAIN inflight
  /\ stateError' = TRUE
  /\ loading' = FALSE
  /\ optimizing' = (IF inflight[k].owner THEN FALSE ELSE optimizing)
  /\ inflight' = Without(inflight, k)
  /\ UNCHANGED <<guitars, selections, pc, edits, optIn, globalTargets, page,
                 appFrame>>

\* loadGuitars, run once when the application is mounted
Load ==
  \/ FetchGuitars
  \/ FetchFails
  \/ LoadSelections
  \/ LoadOptimizeFails

\* the editor page: the guitar list, the cards and the global targets
Next ==
  \/ Load
  \/ AddGuitar
  \/ \E index \in 0..(Len(guitars) - 1) : DeleteGuitar(index)
  \/ \E index \in 0..(Len(guitars) - 1) :
       \E newNStrings \in MinNStrings..MaxNStrings :
         NStringsChange(index, newNStrings)
  \/ \E index \in 0..(Len(guitars) - 1) :
       \E stringIdx \in 0..(guitars[index + 1].n_strings - 1) :
         \E gauge \in EditGauges : GaugeChange(index, stringIdx, gauge)
  \/ \E index \in 0..(Len(guitars) - 1) :
       \E stringIdx \in 0..(guitars[index + 1].n_strings - 1) :
         \E note \in EditNotes : NoteChange(index, stringIdx, note)
  \/ \E kind \in {"plain", "wound"} : \E idx \in {1, 2} :
       \E value \in TargetValues : SetGlobalTargets(kind, idx, value)
  \/ ApplyGlobalTargets

Spec == Init /\ [][Next]_vars

\* both pages with the optimize requests they send, the responses arriving in
\* any order, and the actions of the editor that can fall between a request
\* and its response
AsyncNext ==
  \/ Load
  \/ Navigate
  \/ AddGuitar
  \/ \E index \in 0..(Len(guitars) - 1) : DeleteGuitar(index)
  \/ \E index \in 0..(Len(guitars) - 1) :
       \E gauge \in AsyncGauges : GaugeChange(index, 0, gauge)
  \/ \E kind \in {"plain", "wound"} : \E idx \in {1, 2} :
       \E value \in TargetValues : SetGlobalTargets(kind, idx, value)
  \/ ApplyGlobalTargets
  \/ EditorOptimize
  \/ \E bounds \in TargetChoices : SummaryOptimize(bounds)
  \/ \E k \in DOMAIN inflight : OptimizeSucceeds(k)
  \/ \E k \in DOMAIN inflight : OptimizeFails(k)

SpecAsync == Init /\ [][AsyncNext]_vars

(***************************************************************************)
(* Properties of the gauge inventory (Spec).                               *)
(***************************************************************************)
RECURSIVE SumCounts(_)
SumCounts(usages) ==
  IF usages = <<>> THEN 0 ELSE Head(usages).count + SumCounts(Tail(usages))

RECURSIVE TotalStrings(_)
TotalStrings(gs) ==
  IF gs = <<>> THEN 0 ELSE Head(gs).n_strings + TotalStrings(Tail(gs))

\* C10: once the selections are loaded, the counts of the usage groups
\* buildGaugeUsages builds add up to the number of strings of all guitars.
C10_CountConservation ==
  (pc = "ready") =>
     SumCounts(buildGaugeUsages(guitars, selections)) = TotalStrings(guitars)

(***************************************************************************)
(* Properties of the inventory (buildGaugeUsages, singletonGauges).        *)
(***************************************************************************)
\* the groups of the inventory of the current state
Inventory == buildGaugeUsages(guitars, selections)

InventoryGroups == LET inv == Inventory IN {inv[k] : k \in DOMAIN inv}

\* the strings of the guitars that currently use the pair (gauge, type)
StringsUsing(gauge, type) ==
  {p \in AllStrings(guitars) :
     CurrentSel(selections, p[1], p[2] + 1) = Sel(gauge, type)}

\* the singleton keys of the editor are the groups of count 1 of the inventory
EditorAgreesWithSummary ==
  LET groups == InventoryGroups
  IN  singletonGauges(guitars, selections)
        = {<<u.gauge, u.type>> : u \in {v \in groups : v.count = 1}}

\* a group is reported as a singleton exactly when one string uses its pair
SingletonIffOneString ==
  LET groups == InventoryGroups
  IN  \A u \in groups :
         (u.count = 1) <=> (Cardinality(StringsUsing(u.gauge, u.type)) = 1)

\* C11: a (gauge, class) group is reported as a singleton if and only if
\* exactly one string across all guitars uses the pair, and the singleton keys
\* computed in the editor are the groups of count 1 of the inventory.
C11_SingletonClassification ==
  EditorAgreesWithSummary /\ SingletonIffOneString

\* the tension of gauge g on the string of the singleton group u
TensionOn(u, g) ==
  calcTension(g, u.type, u.usages[1].scale, u.usages[1].freq)

\* the common groups of the class of u with another gauge
Candidates(groups, u) ==
  {c \in groups : c.count > 1 /\ c.type = u.type /\ c.gauge # u.gauge}

\* the target range of the string of the singleton group u
TargetOn(u) == TargetOf(guitars[u.usages[1].guitarIdx + 1], u.type)

\* C12: the swap gauge suggested for a singleton group is the gauge of a
\* common group of the same class, differs from the singleton's gauge, and no
\* such common group has a tension, at the singleton string's scale and
\* frequency, closer to the singleton's current tension.
C12_SwapSearch ==
  LET groups == InventoryGroups
  IN  \A u \in groups :
         (u.count = 1 /\ u.swapOption # <<>>) =>
            LET swap == u.swapOption[1]
                dev(g) == Abs(TensionOn(u, g) - TensionOn(u, u.gauge))
            IN  /\ \E c \in Candidates(groups, u) : c.gauge = swap.gauge
                /\ swap.gauge # u.gauge
                /\ \A c \in Candidates(groups, u) : dev(swap.gauge) <= dev(c.gauge)

\* a singleton with two common groups of its class to choose from, the
\* suggested one strictly closer than the other
C12_Witness ==
  LET groups == InventoryGroups
  IN  \E u \in groups :
         /\ u.count = 1
         /\ u.swapOption # <<>>
         /\ Cardinality(Candidates(groups, u)) >= 2
         /\ \E c \in Candidates(groups, u) :
               Abs(TensionOn(u, c.gauge) - TensionOn(u, u.gauge))
                 > Abs(u.swapOption[1].newTension - TensionOn(u, u.gauge))

C14_SwapKeepsInRange ==
  LET groups == InventoryGroups
  IN  \A u \in groups :
         (u.swapOption # <<>>) =>
            /\ TargetOn(u)[1] <= u.swapOption[1].newTension
            /\ u.swapOption[1].newTension <= TargetOn(u)[2]

\* a group without its swap option
Plain(u) == [gauge |-> u.gauge, type |-> u.type, count |-> u.count,
             usages |-> u.usages]

\* C15: a singleton group with no common group of its class gets no swap
\* option and is reported as "no common gauge", and the inventory holds the
\* groups of the first pass, with their counts and strings, all the same.
C15_NoCandidate ==
  LET groups == InventoryGroups
      first  == CollectUsages(guitars, selections,
                              UsagePositions(guitars, selections, 0), 1, <<>>)
  IN  /\ \A u \in groups :
            (u.count = 1 /\ Candidates(groups, u) = {}) =>
               u.swapOption = <<>> /\ SwapCell(u) = "no common gauge"
      /\ {Plain(u) : u \in groups} = {Plain(first[k]) : k \in DOMAIN first}
      /\ Len(Inventory) = Len(first)

\* an inventory with a singleton that has no candidate next to a singleton
\* that has a suggestion
C15_Witness ==
  LET groups == InventoryGroups
  IN  /\ \E u \in groups : u.count = 1 /\ Candidates(groups, u) = {}
                              /\ SwapCell(u) = "no common gauge"
      /\ \E u \in groups : u.count = 1 /\ SwapCell(u) = "swap"
      /\ \E u \in groups : u.count > 1 /\ SwapCell(u) = ""

(***************************************************************************)
(* The engine functions applied to one argument list each (SpecEngine):    *)
(* recIn holds the call, recOut its result.                                *)
(***************************************************************************)
MaxEngStrings == 8

\* name parts of note tokens: the pitch classes, the flat spellings, and
\* names that are neither ("E" -> "", "E10" -> "E1", "H4" -> "H", "e4" -> "e")
EngNames ==
  DOMAIN NOTE_INDEX \cup DOMAIN FLAT_TO_SHARP \cup {"", "E1", "H", "e"}

\* parseInt of the last character: a digit, or NaN
EngOctaves == 0..9 \cup {NotANumber}

\* gauges in a catalog and gauges in none
EngGauges == {9, 10, 26, 46, 11, 50}

EngScales == {255, 270, NotANumber}

EngFreqs == {82, 329, NotANumber}

EngTargets == {<<500, 1000>>, DEFAULT_TARGET_PLAIN, DEFAULT_TARGET_WOUND}

EngScaleArgs ==
  {<<s>> : s \in {250, 255, 270}}
    \cup {<<t, b>> : t \in {250, 255, 270}, b \in {250, 255, 270}}

\* string_types arguments: null, and arrays of 0, 4 and 6 tags
EngTypeArgs ==
  {NullTypes, Types(<<>>), Types(<<"p", "p", "w", "w">>),
   Types(<<"p", "p", "p", "p">>), Types(<<"p", "p", "p", "p", "w", "w">>)}

EngCalls ==
  {[fn |-> "noteToFreq", note |-> Note(nm, o)] :
      nm \in EngNames, o \in EngOctaves}
    \cup [fn : {"calcTension"}, gauge : EngGauges, stype : {"p", "w"},
          scale : EngScales, freq : EngFreqs]
    \cup [fn : {"resolveScales"}, scale : EngScaleArgs,
          nStrings : 1..MaxEngStrings]
    \cup [fn : {"resolveStringTypes"}, stringTypes : EngTypeArgs,
          nStrings : 1..MaxEngStrings]

EngInit ==
  /\ recIn \in EngCalls
  /\ recOut = NoGauge
  /\ recDone = FALSE
  /\ AppIdle
  /\ OptIdle

NoteToFreq ==
  /\ ~recDone
  /\ recIn.fn = "noteToFreq"
  /\ recOut' = [raised |-> noteToFreqRaises(recIn.note),
                nan |-> semitonesIsNaN(recIn.note),
                semitones |-> IF semitonesIsNaN(recIn.note) THEN 0
                              ELSE noteSemitones(recIn.note),
                value |-> noteToFreq(recIn.note)]
  /\ recDone' = TRUE
  /\ UNCHANGED <<uiVars, recIn, appVars, optVars>>

CalcTension ==
  /\ ~recDone
  /\ recIn.fn = "calcTension"
  /\ recOut' = calcTension(recIn.gauge, recIn.stype, recIn.scale, recIn.freq)
  /\ recDone' = TRUE
  /\ UNCHANGED <<uiVars, recIn, appVars, optVars>>

ResolveScales ==
  /\ ~recDone
  /\ recIn.fn = "resolveScales"
  /\ recOut' = resolveScales(recIn.scale, recIn.nStrings)
  /\ recDone' = TRUE
  /\ UNCHANGED <<uiVars, recIn, appVars, optVars>>

ResolveStringTypes ==
  /\ ~recDone
  /\ recIn.fn = "resolveStringTypes"
  /\ recOut' = resolveStringTypes(recIn.stringTypes, recIn.nStrings)
  /\ recDone' = TRUE
  /\ UNCHANGED <<uiVars, recIn, appVars, optVars>>

EngNext ==
  \/ NoteToFreq
  \/ CalcTension
  \/ ResolveScales
  \/ ResolveStringTypes

SpecEngine == EngInit /\ [][EngNext]_vars

(***************************************************************************)
(* Properties of the engine functions (SpecEngine).                        *)
(***************************************************************************)
CalledWith(fn) == recDone /\ recIn.fn = fn

\* the gauge of the call is no key of the unit weight table of its class
MissingGauge == recIn.gauge \notin DOMAIN UnitWeights(recIn.stype)

\* the missing gauge fallback for a scale and a frequency that are numbers
MissingGaugeZeroForNumbers ==
  (/\ CalledWith("calcTension")
   /\ MissingGauge
   /\ recIn.scale # NotANumber
   /\ recIn.freq # NotANumber) => recOut = 0

\* C16: calcTension for a gauge that is no key of the unit weight table of
\* the class returns 0 for every scale and frequency, and isInRange reports
\* that tension out of range for every target with min > 0.
C16_MissingGaugeZero ==
  (CalledWith("calcTension") /\ MissingGauge) =>
     /\ recOut = 0
     /\ \A target \in EngTargets :
           target[1] > 0 => ~isInRange(recOut, target)

\* C17: "A4" has semitone offset 0 and frequency 440, "A5" has offset 12 and
\* frequency 880, and a flat spelling with an octave digit gives the frequency
\* of its sharp equivalent.
C17_ReferenceValues ==
  CalledWith("noteToFreq") =>
     /\ recIn.note = Note("A", 4) =>
          ~recOut.nan /\ recOut.semitones = 0 /\ recOut.value = 440
     /\ recIn.note = Note("A", 5) =>
          ~recOut.nan /\ recOut.semitones = 12 /\ recOut.value = 880
     /\ (recIn.note.name \in DOMAIN FLAT_TO_SHARP
           /\ recIn.note.octave # NotANumber) =>
          /\ recOut.value # NotANumber
          /\ recOut.value
               = noteToFreq(Note(FLAT_TO_SHARP[recIn.note.name],
                                 recIn.note.octave))

\* "Bb3" resolved to the frequency of "A#3"
C17_Witness ==
  /\ CalledWith("noteToFreq")
  /\ recIn.note = Note("Bb", 3)
  /\ recOut.value = noteToFreq(Note("A#", 3))
  /\ recOut.value > 0

\* the name part is a pitch class or a flat spelling and the octave parses
RecognizedToken(note) ==
  /\ note.name \in DOMAIN NOTE_INDEX \cup DOMAIN FLAT_TO_SHARP
  /\ note.octave # NotANumber

\* C18: noteToFreq fails with InvalidNoteError when the name part is no
\* recognized pitch class or the octave part does not parse; it returns no
\* frequency for such a token.
C18_InvalidNoteFails ==
  (CalledWith("noteToFreq") /\ ~RecognizedToken(recIn.note)) => recOut.raised

\* the call is for a (treble, bass) pair
PairCall == CalledWith("resolveScales") /\ Len(recIn.scale) = 2

C20_DegeneratePair ==
  (PairCall /\ recIn.nStrings = 1) =>
     /\ Len(recOut) = 1
     /\ recOut[1] # NotANumber
     /\ recOut[1] = recIn.scale[1]

\* the default rule: positions 0, 1, 2 plain, every later position wound
DefaultTypes(n) == [i \in 1..n |-> IF i <= 3 THEN "p" ELSE "w"]

C22_OverrideHandling ==
  CalledWith("resolveStringTypes") =>
     LET override == recIn.stringTypes
         full     == override.present /\ Len(override.types) = recIn.nStrings
     IN  /\ Len(recOut) = recIn.nStrings
         /\ full => recOut = override.types
         /\ ~full => recOut = DefaultTypes(recIn.nStrings)

\* the part of C22 the code keeps: an override of N entries is used verbatim
FullOverrideVerbatim ==
  (/\ CalledWith("resolveStringTypes")
   /\ recIn.stringTypes.present
   /\ Len(recIn.stringTypes.types) = recIn.nStrings) =>
     recOut = recIn.stringTypes.types

(***************************************************************************)
(* Properties of the reducer and the editor handlers (Spec).               *)
(***************************************************************************)
\* what DELETE_GUITAR(index) leaves: the other guitars in their order, each
\* with the selection set it had, under the keys 0 .. number of guitars - 1
DeleteKeepsPairs(index) ==
  LET kept == KeptIndices(index)
  IN  /\ Len(guitars') = Len(guitars) - 1
      /\ \A n \in 1..Len(kept) :
           /\ guitars'[n] = guitars[kept[n] + 1]
           /\ SelOf(selections', n - 1) = SelOf(selections, kept[n])
      /\ DOMAIN selections' = 0..(Len(guitars') - 1)

DeleteStepKeepsPairs ==
  \A index \in 0..(Len(guitars) - 1) :
    DeleteGuitar(index) => DeleteKeepsPairs(index)

\* C23: after DELETE_GUITAR(k) every remaining guitar has the selection set it
\* had before, the set of the deleted guitar is gone, and the selection keys
\* are exactly 0 .. number of guitars - 1.
C23_DeleteKeepsAssociations == [][DeleteStepKeepsPairs]_vars

\* the first of two loaded guitars deleted: the second guitar is now guitar 0
\* and carries the selection set it had under key 1
C23_Witness ==
  /\ pc = "ready"
  /\ edits = 1
  /\ guitars = <<LongGuitar>>
  /\ DOMAIN selections = {0}
  /\ selections[0] = optimize(<<WideGuitar, LongGuitar>>,
                              generateDefaultSelections(<<WideGuitar, LongGuitar>>))[1]
  /\ selections[0] # optimize(<<WideGuitar, LongGuitar>>,
                              generateDefaultSelections(<<WideGuitar, LongGuitar>>))[0]

\* the tuning of every guitar has n_strings notes
TuningShape ==
  \A i \in DOMAIN guitars : Len(guitars[i].tuning) = guitars[i].n_strings

\* the class override of every guitar that has one has n_strings tags
OverrideShape ==
  \A i \in DOMAIN guitars :
    guitars[i].string_types.present =>
      Len(guitars[i].string_types.types) = guitars[i].n_strings

\* C24: after any sequence of editor actions on guitars that satisfy it,
\* every guitar's tuning length equals n_strings and the length of its class
\* override, when it has one, equals n_strings.
C24_ShapeInvariant == TuningShape /\ OverrideShape

\* what ADD_GUITAR leaves and creates
AddAppends ==
  LET idx   == Len(guitars)
      added == guitars'[idx + 1]
      types == resolveStringTypes(added.string_types, added.n_strings)
      scales == resolveScales(added.scale, added.n_strings)
  IN  /\ Len(guitars') = Len(guitars) + 1
      /\ \A i \in DOMAIN guitars : guitars'[i] = guitars[i]
      /\ \A k \in DOMAIN selections \ {idx} :
           k \in DOMAIN selections' /\ selections'[k] = selections[k]
      /\ idx \in DOMAIN selections'
      /\ Len(selections'[idx]) = added.n_strings
      /\ \A i \in 1..added.n_strings :
           /\ selections'[idx][i].type = types[i]
           /\ selections'[idx][i].gauge
                = recommendGauge(types[i], scales[i], noteToFreq(added.tuning[i]),
                                 IF types[i] = "p" THEN added.target_plain
                                 ELSE added.target_wound)
      /\ added.target_plain = globalTargets.plain
      /\ added.target_wound = globalTargets.wound

AddStepAppends == AddGuitar => AddAppends

\* C25: ADD_GUITAR appends the new guitar, leaves every existing guitar and
\* selection set unchanged, and gives the new guitar a selection set of
\* n_strings entries, each with the resolved class of its position and the
\* gauge recommendGauge returns; the new guitar's targets are the global
\* targets at the time of adding.
C25_AddGuitar == [][AddStepAppends]_vars

\* a guitar added after the global plain minimum was set to 12: it carries
\* the target [12, 15.5] and six recommended selections
C25_Witness ==
  /\ edits = 2
  /\ Len(guitars) = 2
  /\ globalTargets.plain = <<12000, 15500>>
  /\ guitars[2].target_plain = <<12000, 15500>>
  /\ guitars[2].name = <<"Guitar", 2>>
  /\ Len(SelOf(selections, 1)) = 6
  /\ \A i \in 1..6 : SelOf(selections, 1)[i].gauge # NoGauge

\* what APPLY_GLOBAL_TARGETS changes and leaves
ApplySetsTargets ==
  /\ Len(guitars') = Len(guitars)
  /\ \A i \in DOMAIN guitars :
       /\ guitars'[i].target_plain = globalTargets.plain
       /\ guitars'[i].target_wound = globalTargets.wound
       /\ guitars'[i].name = guitars[i].name
       /\ guitars'[i].n_strings = guitars[i].n_strings
       /\ guitars'[i].scale = guitars[i].scale
       /\ guitars'[i].tuning = guitars[i].tuning
       /\ guitars'[i].string_types = guitars[i].string_types
  /\ selections' = selections
  /\ globalTargets' = globalTargets

ApplyStepSetsTargets == ApplyGlobalTargets => ApplySetsTargets

SetStepKeepsGuitars ==
  \A kind \in {"plain", "wound"} : \A idx \in {1, 2} : \A value \in TargetValues :
    SetGlobalTargets(kind, idx, value) =>
      /\ guitars' = guitars
      /\ selections' = selections
      /\ globalTargets'[kind][idx] = value

ApplyAndSetSteps == ApplyStepSetsTargets /\ SetStepKeepsGuitars

\* C26: after APPLY_GLOBAL_TARGETS every guitar's plain and wound targets
\* equal the global targets while names, string counts, scales, tunings,
\* class overrides and all selections are unchanged; SET_GLOBAL_TARGETS alone
\* changes no guitar.
C26_ApplyGlobalTargets == [][ApplyAndSetSteps]_vars

\* the global plain minimum set to 12 and applied: the fetched guitar, whose
\* plain target was [13, 15.5], now has [12, 15.5]
C26_Witness ==
  /\ edits = 2
  /\ Len(guitars) = 1
  /\ guitars[1].name = DefaultGuitar.name
  /\ globalTargets.plain = <<12000, 15500>>
  /\ guitars[1].target_plain = <<12000, 15500>>
  /\ guitars[1].target_wound = globalTargets.wound
  /\ guitars[1].tuning = DefaultGuitar.tuning

\* the selection set under key i has n_strings entries, none missing
Aligned(i) ==
  /\ i \in DOMAIN selections
  /\ selections[i] # UndefinedSet
  /\ Len(selections[i]) = guitars[i + 1].n_strings
  /\ \A k \in DOMAIN selections[i] : selections[i][k] # NoSel

\* C27: after any sequence of ADD_GUITAR, DELETE_GUITAR and string-count
\* changes, once the selections are loaded, for every guitar index i the
\* selection set under key i has exactly n_strings entries, none missing.
C27_SelectionsAligned ==
  pc = "ready" => \A i \in 0..(Len(guitars) - 1) : Aligned(i)

\* the part of C27 the code keeps: the sets are aligned when the first
\* response arrives with nothing done since the fetch
AlignedAfterLoad ==
  (pc = "ready" /\ edits = 0) => \A i \in 0..(Len(guitars) - 1) : Aligned(i)

(***************************************************************************)
(* Properties of the optimize requests and the load (SpecAsync).           *)
(***************************************************************************)
\* the strings of the guitars now in the list
CurrentStrings ==
  {p \in (0..(Len(guitars) - 1)) \X (1..12) : p[2] <= guitars[p[1] + 1].n_strings}

\* the response of request k installs a set for every guitar now in the
\* list, and every selection that was changed since the request was sent
\* keeps its value
ResponseKeepsUpdates(k) ==
  /\ \A i \in 0..(Len(guitars') - 1) :
       /\ i \in DOMAIN selections'
       /\ Len(SelOf(selections', i)) = guitars'[i + 1].n_strings
  /\ \A p \in CurrentStrings :
       CurrentSel(selections, p[1], p[2]) # CurrentSel(inflight[k].sels, p[1], p[2])
         => CurrentSel(selections', p[1], p[2]) = CurrentSel(selections, p[1], p[2])

ResponseStepKeepsUpdates ==
  \A k \in DOMAIN inflight : OptimizeSucceeds(k) => ResponseKeepsUpdates(k)

\* C28: when the response of an optimize request is applied by
\* SET_SELECTIONS, the installed selections fit the guitar list of that
\* moment, and no UPDATE_STRING_SELECTION, ADD_GUITAR or DELETE_GUITAR
\* dispatched since the request was sent is overwritten or misaligned.
C28_NoLostUpdate == [][ResponseStepKeepsUpdates]_vars

\* the part of C28 the code keeps: a response that finds the guitars and
\* selections as they were sent installs the optimizer's output for them
ResponseOnUnchangedState ==
  \A k \in DOMAIN inflight :
    (OptimizeSucceeds(k) /\ inflight[k].gs = guitars /\ inflight[k].sels = selections)
      => selections' = optimize(guitars, selections)

QuietResponse == [][ResponseOnUnchangedState]_vars

\* every guitar's targets and the global targets equal the bounds, in the
\* state after the step
TargetsEqual(bounds) ==
  /\ globalTargets' = bounds
  /\ \A i \in DOMAIN guitars' :
       /\ guitars'[i].target_plain = bounds.plain
       /\ guitars'[i].target_wound = bounds.wound

\* request k completes, with a response or with a failure
Completes(k) == OptimizeSucceeds(k) \/ OptimizeFails(k)

\* the requests in flight that the Summary page sent
SummaryRequests == {k \in DOMAIN inflight : inflight[k].origin = "summary"}

SummaryFlagStep ==
  /\ SummaryRequests # {} => optimizing
  /\ Cardinality(SummaryRequests) <= 1
  /\ \A k \in SummaryRequests :
       Completes(k) => ~optimizing' /\ TargetsEqual(inflight[k].bounds[1])

\* C29: the optimizing flag is true from the click on Optimize until the
\* request completes, at most one request started from the Summary page is in
\* flight, and the flag is false again when the request completes, with a
\* response or a failure; at that point every guitar's targets and the global
\* targets equal the bounds entered.
C29_SummaryFlag == [][SummaryFlagStep]_vars

\* the requests in flight whose Summary page is still mounted
MountedRequests == {k \in DOMAIN inflight : inflight[k].owner}

MountedFlagStep ==
  /\ MountedRequests # {} => optimizing
  /\ Cardinality(MountedRequests) <= 1
  /\ \A k \in MountedRequests :
       Completes(k) => ~optimizing' /\ TargetsEqual(inflight[k].bounds[1])

\* C29 for the Summary page that stays mounted: while the page that sent the
\* request is shown, the flag is true until the request completes, the page
\* has at most one request in flight, and at completion the flag is false and
\* every guitar's targets and the global targets equal the bounds entered.
C29_MountedSummaryFlag == [][MountedFlagStep]_vars

\* a request of the Summary page with the bounds [12, 17] and [15, 24] has
\* completed with a response: flag false, targets as entered
C29_Witness ==
  /\ page = "summary"
  /\ pc = "ready"
  /\ inflight = <<>>
  /\ ~optimizing
  /\ ~stateError
  /\ edits = 1
  /\ guitars # <<>>
  /\ globalTargets = [plain |-> <<12000, 17000>>, wound |-> <<15000, 24000>>]
  /\ \A i \in DOMAIN guitars :
       guitars[i].target_plain = <<12000, 17000>>
  /\ selections = optimize(guitars, selections)

\* the step with which loadGuitars finishes: its last dispatch
LoadFinishes == pc' # pc /\ pc' \in {"ready", "failed"}

\* the selections installed are the optimizer's output for the default
\* selections of the guitars fetched, one set for each
LoadedSelections ==
  /\ selections' = optimize(optIn.gs, generateDefaultSelections(optIn.gs))
  /\ DOMAIN selections' = 0..(Len(optIn.gs) - 1)
  /\ \A i \in DOMAIN selections' :
       Len(selections'[i]) = optIn.gs[i + 1].n_strings

LoadOutcomeStep ==
  LoadFinishes =>
    /\ ~loading'
    /\ pc' = "failed" => stateError'
    /\ pc' = "ready" => ~stateError' /\ LoadedSelections

ErrorSetBy ==
  (stateError' /\ ~stateError) =>
     \/ LoadFinishes /\ pc' = "failed"
     \/ \E k \in DOMAIN inflight : OptimizeFails(k)

LoadOutcomeAmendedStep ==
  /\ ErrorSetBy
  /\ LoadFinishes =>
       /\ ~loading'
       /\ pc' = "failed" => stateError'
       /\ pc' = "ready" => stateError' = stateError /\ LoadedSelections

====
